---- MODULE Spec2Model ----
(***************************************************************************)
(* Buffers of the vector pipeline: BufferConfig::build (src/src/buffers.rs) *)
(* and BufferInputCloner, DropWhenFull and the Acker as exercised by the   *)
(* tests (src/lib/vector-core/src/buffers/mod.rs).                         *)
(*                                                                         *)
(* The memory buffer is a futures::channel::mpsc bounded channel.  Its     *)
(* sender and receiver are modelled by what the calls made in the source   *)
(* do: every sender owns one guaranteed slot in addition to the shared     *)
(* buffer, a sender parks itself when its send makes the number of         *)
(* messages exceed the buffer, and the receiver unparks one parked sender  *)
(* for every message it takes.                                             *)
(***************************************************************************)
EXTENDS Integers, Sequences, FiniteSets, TLC

\* ------------------------------------------------------------- bounds
MaxEvents == 2      \* max_events ranges over 0..MaxEvents
MaxItems == 4       \* items submitted by all producers together
MaxEndpoints == 2   \* endpoints obtained with get()
MaxCloners == 2     \* BufferInputCloner values (the built one and its clones)
MaxAck == 2         \* ack(num) is called with num in 0..MaxAck
MaxCounter == 3     \* the acker's counter is followed up to this value
MaxLifeItems == 3   \* items submitted where endpoints are also flushed and closed
MaxSize == 2        \* max_size in a configuration text ranges over 1..MaxSize

\* BufferConfig::memory_max_events()
memory_max_events == 500

Endpoints == 1..MaxEndpoints
Cloners == 1..MaxCloners
Items == 1..MaxItems
ChanIds == 0..MaxEndpoints

WhenFull == {"Block", "DropNewest"}

MissingDataDir == "Must set data_dir to use on-disk buffering."
OpenError == "disk::open error text"

VARIABLES
    cfg,        \* the BufferConfig value build is called on
    data_dir,   \* build's data_dir argument: "None" or "Some"
    built,      \* build's result: [done, ok, err], err the error string
    openCalls,  \* number of calls of disk::open
    cloners,    \* Cloners -> BufferInputCloner value or NoCloner
    eps,        \* Endpoints -> endpoint returned by get(), or NoEp
    chans,      \* ChanIds -> channel state (shared by the senders and the receiver)
    rx,         \* the read side returned by build; alive until it is dropped
    read,       \* items the read side has yielded, in order
    nextItem,   \* the next item a producer submits (items are numbered 1, 2, ...)
    fate,       \* Items -> the endpoint that submitted the item and the outcome:
                \* "accepted" (queued, start_send Ok), "dropped" (by DropWhenFull,
                \* start_send Ok), "error" (start_send Err(()))
    acker,      \* the Acker returned by build
    waker,      \* the AtomicWaker shared with the acker: "none" or "task"
    mock,       \* the task that registers with the waker, the argument of the
                \* last ack made on the Disk acker (-1: none yet) and the sum
                \* of the arguments of all of them
    log,        \* the channel errors the sink_map_err closure has logged
    toml        \* a configuration text, the BufferConfig value read from it
                \* and the text written back: [stage, src, value, out]

vars == <<cfg, data_dir, built, openCalls, cloners, eps, chans, rx, read,
          nextItem, fate, acker, waker, mock, log, toml>>

\* ------------------------------------------------------------- values
\* No poll_flush or poll_close was the endpoint's last call.
NoLife == [op |-> "none", res |-> "none"]
NoCloner == [exists |-> FALSE, kind |-> "none", chan |-> 0, when_full |-> "Block"]
NoEp == [exists |-> FALSE, kind |-> "none", chan |-> 0, from |-> 0,
         wrapped |-> FALSE, drop |-> FALSE,
         maybe_parked |-> FALSE, is_parked |-> FALSE,
         inner |-> "none", polled |-> "none",
         closed |-> FALSE, life |-> NoLife]
NoChan == [alloc |-> FALSE, buffer |-> 0, queue |-> <<>>, open |-> FALSE,
           parked_queue |-> <<>>]
NoFate == [owner |-> 0, outcome |-> "none"]

\* ---------------------------------------------------- configuration text
\* A configuration text is the table of its keys; a key that is left out has
\* the empty set, a key that is set has the singleton of its value.
TextTypes == {{}, {"memory"}, {"disk"}}
TextMaxEvents == {{}} \cup {{n} : n \in (0..MaxEvents) \cup {memory_max_events}}
TextWhenFull == {{}, {"block"}, {"drop_newest"}}
TextMaxSize == {{}} \cup {{n} : n \in 1..MaxSize}
Texts ==
    [type : TextTypes, max_events : TextMaxEvents, when_full : TextWhenFull,
     max_size : TextMaxSize]
NoText == [type |-> {}, max_events |-> {}, when_full |-> {}, max_size |-> {}]
NoValue == [type |-> "none", max_events |-> 0, max_size |-> 0, when_full |-> "Block"]
NoToml == [stage |-> "none", src |-> NoText, value |-> NoValue, out |-> NoText]

\* The one element of a key that is set.
Only(S) == CHOOSE x \in S : TRUE

\* Variant: the policy a text leaves out is DropNewest.
WhenFullDefaultDropNewest == "DropNewest"

\* impl Default for WhenFull
WhenFullDefault == "Block"

\* #[serde(rename_all = "snake_case")] on WhenFull, reading.
WhenFullFromText(t) == IF t = "drop_newest" THEN "DropNewest" ELSE "Block"

\* #[serde(rename_all = "snake_case")] on WhenFull, writing.
WhenFullToText(w) == IF w = "DropNewest" THEN "drop_newest" ELSE "block"

\* #[serde(default)] when_full
WhenFullField(t) ==
    IF t.when_full = {} THEN WhenFullDefault ELSE WhenFullFromText(Only(t.when_full))

\* #[serde(default = "BufferConfig::memory_max_events")] max_events
MaxEventsField(t) ==
    IF t.max_events = {} THEN memory_max_events ELSE Only(t.max_events)

\* Deserialize for BufferConfig: the tag picks the variant, keys the variant
\* does not have are ignored, a missing tag or a missing max_size is an error.
Deserialize(t) ==
    IF t.type = {"memory"}
    THEN [ok |-> TRUE,
          value |-> [type |-> "Memory", max_events |-> MaxEventsField(t),
                     max_size |-> 0, when_full |-> WhenFullField(t)]]
    ELSE IF t.type = {"disk"} /\ t.max_size # {}
    THEN [ok |-> TRUE,
          value |-> [type |-> "Disk", max_events |-> 0,
                     max_size |-> Only(t.max_size), when_full |-> WhenFullField(t)]]
    ELSE [ok |-> FALSE, value |-> NoValue]

\* Serialize for BufferConfig: the tag and every field of the variant.
Serialize(v) ==
    IF v.type = "Memory"
    THEN [type |-> {"memory"}, max_events |-> {v.max_events},
          when_full |-> {WhenFullToText(v.when_full)}, max_size |-> {}]
    ELSE [type |-> {"disk"}, max_events |-> {},
          when_full |-> {WhenFullToText(v.when_full)}, max_size |-> {v.max_size}]

\* impl Default for BufferConfig
BufferConfigDefault ==
    [type |-> "Memory", max_events |-> memory_max_events, max_size |-> 0,
     when_full |-> WhenFullDefault]

Configs ==
    [type : {"memory"}, max_events : 0..MaxEvents, when_full : WhenFull]
        \cup [type : {"disk"}, max_events : {0}, when_full : WhenFull]

Init ==
    /\ cfg \in Configs
    /\ data_dir \in IF cfg.type = "disk" THEN {"None", "Some"} ELSE {"None"}
    /\ built = [done |-> FALSE, ok |-> FALSE, err |-> ""]
    /\ openCalls = 0
    /\ cloners = [c \in Cloners |-> NoCloner]
    /\ eps = [e \in Endpoints |-> NoEp]
    /\ chans = [c \in ChanIds |-> NoChan]
    /\ rx = [exists |-> FALSE, chan |-> 0, alive |-> FALSE]
    /\ read = <<>>
    /\ nextItem = 1
    /\ fate = [i \in Items |-> NoFate]
    /\ acker = [kind |-> "none", counter |-> 0]
    /\ waker = "none"
    /\ mock = [polled |-> FALSE, woken |-> FALSE, wakes |-> 0, last |-> -1,
               acked |-> 0]
    /\ log = {}
    /\ toml = NoToml

\* -------------------------------------------------- BufferConfig::build
\* mpsc::channel(buffer): an open channel without messages or parked senders.
MpscChannel(buffer) ==
    [alloc |-> TRUE, buffer |-> buffer, queue |-> <<>>, open |-> TRUE,
     parked_queue |-> <<>>]

\* Variant: the memory buffer gets a counting acker.
MemoryAckerDisk == "Disk"

\* Acker::Null, the acker build returns with a memory buffer.
MemoryAcker == "Null"

BuildMemory ==
    /\ cfg.type = "memory"
    /\ chans' = [chans EXCEPT ![0] = MpscChannel(cfg.max_events)]
    /\ cloners' = [cloners EXCEPT ![1] =
            [exists |-> TRUE, kind |-> "Memory", chan |-> 0,
             when_full |-> cfg.when_full]]
    /\ rx' = [exists |-> TRUE, chan |-> 0, alive |-> TRUE]
    /\ acker' = [kind |-> MemoryAcker, counter |-> 0]
    /\ built' = [done |-> TRUE, ok |-> TRUE, err |-> ""]
    /\ UNCHANGED openCalls
\* Variant: the missing directory goes unnoticed and build goes on to open.
DataDirPresentAlways(dir) == TRUE

\* data_dir.as_ref().ok_or_else(..)? : whether build goes on to disk::open.
DataDirPresent(dir) == dir # "None"

BuildDiskNoDir ==
    /\ cfg.type = "disk"
    /\ ~DataDirPresent(data_dir)
    /\ built' = [done |-> TRUE, ok |-> FALSE, err |-> MissingDataDir]
    /\ UNCHANGED <<openCalls, cloners, chans, rx, acker>>

BuildDiskOpen ==
    /\ cfg.type = "disk"
    /\ DataDirPresent(data_dir)
    /\ openCalls' = openCalls + 1
    /\ \E opened \in BOOLEAN :
        IF opened
        THEN /\ cloners' = [cloners EXCEPT ![1] =
                    [exists |-> TRUE, kind |-> "Disk", chan |-> 0,
                     when_full |-> cfg.when_full]]
             /\ rx' = [exists |-> TRUE, chan |-> 0, alive |-> TRUE]
             /\ acker' = [kind |-> "Disk", counter |-> 0]
             /\ built' = [done |-> TRUE, ok |-> TRUE, err |-> ""]
        ELSE /\ built' = [done |-> TRUE, ok |-> FALSE, err |-> OpenError]
             /\ UNCHANGED <<cloners, rx, acker>>
    /\ UNCHANGED chans

Build ==
    /\ ~built.done
    /\ \/ BuildMemory
       \/ BuildDiskNoDir
       \/ BuildDiskOpen
    /\ UNCHANGED <<toml, cfg, data_dir, eps, read, nextItem, fate, waker, mock, log>>

\* ---------------------------------------------------- BufferInputCloner
\* #[derive(Clone)]: the clone holds a clone of the same sender (or writer)
\* and a copy of the policy.
CloneCloner(c, d) ==
    /\ cloners[c].exists
    /\ ~cloners[d].exists
    /\ \A k \in Cloners : k < d => cloners[k].exists
    /\ cloners' = [cloners EXCEPT ![d] = cloners[c]]
    /\ UNCHANGED <<toml, cfg, data_dir, built, openCalls, eps, chans, rx, read,
                   nextItem, fate, acker, waker, mock, log>>
\* Variant: get() makes a channel of its own for the new endpoint.
GetChannelFresh(c, e) == e

\* tx.clone() / writer.clone(): the channel the new endpoint sends into.
GetChannel(c, e) == cloners[c].chan
\* Variant: get() wraps the sender whatever the policy.
GetWrappedAlways(when_full) == TRUE

\* if when_full == &WhenFull::DropNewest { DropWhenFull::new(inner) } else { inner }
GetWrapped(when_full) == when_full = "DropNewest"

\* BufferInputCloner::get: a fresh sender on the cloner's channel (not parked),
\* behind sink_map_err, wrapped in DropWhenFull { drop: false } on DropNewest.
Get(c, e) ==
    /\ cloners[c].exists
    /\ ~eps[e].exists
    /\ \A k \in Endpoints : k < e => eps[k].exists
    /\ eps' = [eps EXCEPT ![e] =
            [exists |-> TRUE, kind |-> cloners[c].kind, chan |-> GetChannel(c, e),
             from |-> c, wrapped |-> GetWrapped(cloners[c].when_full),
             drop |-> FALSE, maybe_parked |-> FALSE, is_parked |-> FALSE,
             inner |-> "none", polled |-> "none",
             closed |-> FALSE, life |-> NoLife]]
    /\ UNCHANGED <<toml, cfg, data_dir, built, openCalls, cloners, chans, rx, read,
                   nextItem, fate, acker, waker, mock, log>>

\* ------------------------------------------ mpsc::Sender behind the endpoint
\* Sender::poll_ready: Disconnected once this sender was closed or the
\* receiver closed the channel, Pending while this sender is parked, Ready(Ok)
\* otherwise.
SenderPollReady(e) ==
    IF eps[e].closed \/ ~chans[eps[e].chan].open THEN "ErrDisconnected"
    ELSE IF eps[e].maybe_parked /\ eps[e].is_parked THEN "Pending"
    ELSE "ReadyOk"

\* poll_unparked clears maybe_parked when it finds the sender no longer parked.
SenderMaybeParkedAfterPoll(e) ==
    IF eps[e].closed \/ ~chans[eps[e].chan].open THEN eps[e].maybe_parked
    ELSE eps[e].maybe_parked /\ eps[e].is_parked

\* Sender::start_send (try_send): Disconnected once this sender was closed,
\* Full while parked, Disconnected when the receiver closed the channel,
\* otherwise the message is queued.
SenderStartSend(e) ==
    IF eps[e].closed THEN "ErrDisconnected"
    ELSE IF eps[e].maybe_parked /\ eps[e].is_parked THEN "ErrFull"
    ELSE IF ~chans[eps[e].chan].open THEN "ErrDisconnected"
    ELSE "Ok"
\* Variant: the sender parks one message later.
ParkSelfLate(num_messages, buffer) == num_messages > buffer + 1

\* Variant: the sender parks as soon as the buffer is reached.
ParkSelfAtBuffer(num_messages, buffer) == num_messages >= buffer

\* do_send_b: the sender parks itself when the number of messages, this one
\* included, exceeds the buffer.
ParkSelf(num_messages, buffer) == num_messages > buffer

\* Sender::poll_flush: the sender's poll_ready, with Disconnected taken as
\* flushed.
SenderPollFlush(e) ==
    IF SenderPollReady(e) = "ErrDisconnected" THEN "ReadyOk"
    ELSE SenderPollReady(e)

\* Sender::poll_close: the sender disconnects and the call returns Ready(Ok).
SenderPollClose(e) == "ReadyOk"

\* Variant: a sender that disconnects takes the queued messages with it.
ChanAfterSenderCloseDrains(ch) == [ch EXCEPT !.queue = <<>>]

\* Sender::disconnect while another sender (the cloner's) is alive: the channel
\* stays open and keeps its messages.
ChanAfterSenderClose(ch) == ch

\* Variant: the message goes to the head of the queue.
QueuePushFront(queue, item) == <<item>> \o queue

\* queue_push_and_signal: the message goes to the tail of the queue.
QueuePush(queue, item) == Append(queue, item)

\* sink_map_err(|error| error!(message = "Sender error.", %error)): what the
\* closure logs for a result of the sender.
SinkMapErrLogs(res) ==
    IF res \in {"ErrDisconnected", "ErrFull"} THEN {res} ELSE {}

\* Variant: the sender's error value reaches the producer.
SinkMapErrTyped(res) == res

\* sink_map_err: the closure's return value () replaces the error value.
SinkMapErr(res) ==
    IF res \in {"ErrDisconnected", "ErrFull"} THEN "ErrUnit" ELSE res

\* -------------------------------------------------------- DropWhenFull
\* Variant: the inner endpoint's Pending is passed on to the producer.
DropWhenFullPollReadyPassThrough(inner, drop) ==
    CASE inner = "ReadyOk" -> [result |-> "ReadyOk", drop |-> FALSE]
      [] inner = "Pending" -> [result |-> "Pending", drop |-> TRUE]
      [] OTHER -> [result |-> inner, drop |-> drop]

\* Variant: an error of the inner endpoint clears the drop flag.
DropWhenFullPollReadyErrClears(inner, drop) ==
    CASE inner = "ReadyOk" -> [result |-> "ReadyOk", drop |-> FALSE]
      [] inner = "Pending" -> [result |-> "ReadyOk", drop |-> TRUE]
      [] OTHER -> [result |-> inner, drop |-> FALSE]

\* Variant: once set, the drop flag stays set.
DropWhenFullPollReadySticky(inner, drop) ==
    CASE inner = "ReadyOk" -> [result |-> "ReadyOk", drop |-> drop]
      [] inner = "Pending" -> [result |-> "ReadyOk", drop |-> TRUE]
      [] OTHER -> [result |-> inner, drop |-> drop]

\* Variant: Pending is answered with Ready(Ok) without setting the drop flag.
DropWhenFullPollReadyNoShed(inner, drop) ==
    CASE inner = "ReadyOk" -> [result |-> "ReadyOk", drop |-> FALSE]
      [] inner = "Pending" -> [result |-> "ReadyOk", drop |-> drop]
      [] OTHER -> [result |-> inner, drop |-> drop]

\* DropWhenFull::poll_ready: the result and the drop flag, from the inner
\* endpoint's result.
DropWhenFullPollReady(inner, drop) ==
    CASE inner = "ReadyOk" -> [result |-> "ReadyOk", drop |-> FALSE]
      [] inner = "Pending" -> [result |-> "ReadyOk", drop |-> TRUE]
      [] OTHER -> [result |-> inner, drop |-> drop]
\* Variant: the drop flag is ignored and every item is forwarded.
DropWhenFullForwardsAlways(drop) == TRUE

\* Variant: the test of the drop flag is inverted.
DropWhenFullForwardsInverted(drop) == drop

\* DropWhenFull::start_send: whether the item goes to the inner start_send.
DropWhenFullForwards(drop) == ~drop

\* Variant: lifecycle calls are held back while the endpoint is shedding.
DropWhenFullLifecycleForwardsUnlessDrop(drop) == ~drop

\* DropWhenFull::poll_flush and poll_close: whether the call goes to the inner
\* endpoint (always, whatever the drop flag).
DropWhenFullLifecycleForwards(drop) == TRUE

\* ------------------------------------------------------------ producers
MemoryEp(e) == eps[e].exists /\ eps[e].kind = "Memory"

\* One readiness probe of the endpoint returned by get().
PollReady(e) ==
    /\ MemoryEp(e)
    /\ LET inner == SinkMapErr(SenderPollReady(e))
           out == IF eps[e].wrapped
                  THEN DropWhenFullPollReady(inner, eps[e].drop)
                  ELSE [result |-> inner, drop |-> eps[e].drop]
       IN eps' = [eps EXCEPT ![e] =
              [@ EXCEPT !.maybe_parked = SenderMaybeParkedAfterPoll(e),
                        !.inner = inner,
                        !.polled = out.result,
                        !.drop = out.drop,
                        !.life = NoLife]]
    /\ log' = log \cup SinkMapErrLogs(SenderPollReady(e))
    /\ UNCHANGED <<toml, cfg, data_dir, built, openCalls, cloners, chans, rx, read,
                   nextItem, fate, acker, waker, mock>>

\* One submission, after a probe that returned Ready(Ok).  The item is the next
\* number.
StartSend(e) ==
    /\ MemoryEp(e)
    /\ eps[e].polled = "ReadyOk"
    /\ nextItem <= MaxItems
    /\ LET item == nextItem
           ch == chans[eps[e].chan]
           forwards == ~eps[e].wrapped \/ DropWhenFullForwards(eps[e].drop)
           raw == IF forwards THEN SenderStartSend(e) ELSE "Ok"
           res == IF forwards THEN SinkMapErr(raw) ELSE "Ok"
           queued == forwards /\ res = "Ok"
           park == queued /\ ParkSelf(Len(ch.queue) + 1, ch.buffer)
       IN /\ chans' = IF queued
                THEN [chans EXCEPT ![eps[e].chan] =
                        [@ EXCEPT !.queue = QueuePush(ch.queue, item),
                                  !.parked_queue =
                                      IF park THEN Append(@, e) ELSE @]]
                ELSE chans
          /\ eps' = [eps EXCEPT ![e] =
                [@ EXCEPT !.polled = "none",
                          !.inner = "none",
                          !.life = NoLife,
                          !.is_parked = IF park THEN TRUE ELSE @,
                          !.maybe_parked =
                              IF park THEN TRUE
                              ELSE IF forwards THEN @ /\ eps[e].is_parked
                              ELSE @]]
          /\ fate' = [fate EXCEPT ![item] =
                [owner |-> e,
                 outcome |-> IF ~forwards THEN "dropped"
                             ELSE IF res = "Ok" THEN "accepted"
                             ELSE IF res = "ErrUnit" THEN "error"
                             ELSE res]]
          /\ log' = log \cup SinkMapErrLogs(raw)
    /\ nextItem' = nextItem + 1
    /\ UNCHANGED <<toml, cfg, data_dir, built, openCalls, cloners, rx, read,
                   acker, waker, mock>>

\* One poll_flush of the endpoint.
PollFlush(e) ==
    /\ MemoryEp(e)
    /\ LET forwards == ~eps[e].wrapped \/ DropWhenFullLifecycleForwards(eps[e].drop)
           res == IF forwards THEN SinkMapErr(SenderPollFlush(e)) ELSE "ReadyOk"
       IN /\ eps' = [eps EXCEPT ![e] =
              [@ EXCEPT !.maybe_parked =
                            IF forwards THEN SenderMaybeParkedAfterPoll(e) ELSE @,
                        !.life = [op |-> "flush", res |-> res]]]
          /\ log' = log \cup (IF forwards THEN SinkMapErrLogs(SenderPollFlush(e))
                                           ELSE {})
    /\ UNCHANGED <<toml, cfg, data_dir, built, openCalls, cloners, chans, rx, read,
                   nextItem, fate, acker, waker, mock>>

\* One poll_close of the endpoint: its sender disconnects; the channel stays
\* open, the cloner still holds a sender. An earlier Ready(Ok) probe no
\* longer stands for a submission.
PollClose(e) ==
    /\ MemoryEp(e)
    /\ LET forwards == ~eps[e].wrapped \/ DropWhenFullLifecycleForwards(eps[e].drop)
           res == IF forwards THEN SinkMapErr(SenderPollClose(e)) ELSE "ReadyOk"
       IN /\ eps' = [eps EXCEPT ![e] =
              [@ EXCEPT !.closed = IF forwards THEN TRUE ELSE @,
                        !.polled = "none",
                        !.inner = "none",
                        !.life = [op |-> "close", res |-> res]]]
          /\ chans' = IF forwards
                      THEN [chans EXCEPT ![eps[e].chan] = ChanAfterSenderClose(@)]
                      ELSE chans
          /\ log' = log \cup (IF forwards THEN SinkMapErrLogs(SenderPollClose(e))
                                           ELSE {})
    /\ UNCHANGED <<toml, cfg, data_dir, built, openCalls, cloners, rx, read,
                   nextItem, fate, acker, waker, mock>>

\* ------------------------------------------------------------ read side
\* Receiver::unpark_one: the sender parked first is no longer parked.
UnparkOne(es, parked_queue) ==
    IF parked_queue = <<>> THEN es
    ELSE [es EXCEPT ![Head(parked_queue)].is_parked = FALSE]

\* What Receiver::poll_next returns: the oldest message, or Pending when the
\* channel is empty (the cloner keeps a sender, so the stream does not end).
RxPollNextResult ==
    IF chans[rx.chan].queue # <<>>
    THEN [tag |-> "Some", item |-> Head(chans[rx.chan].queue)]
    ELSE [tag |-> "Pending", item |-> 0]

\* Receiver::poll_next: the oldest message is taken and one parked sender is
\* unparked; nothing changes when it returns Pending.
RxPollNext ==
    /\ rx.exists /\ rx.alive
    /\ chans[rx.chan].alloc
    /\ LET ch == chans[rx.chan]
       IN IF ch.queue # <<>>
          THEN /\ read' = Append(read, Head(ch.queue))
               /\ chans' = [chans EXCEPT ![rx.chan] =
                      [@ EXCEPT !.queue = Tail(ch.queue),
                                !.parked_queue =
                                    IF @ = <<>> THEN @ ELSE Tail(@)]]
               /\ eps' = UnparkOne(eps, ch.parked_queue)
          ELSE UNCHANGED <<read, chans, eps>>
    /\ UNCHANGED <<toml, cfg, data_dir, built, openCalls, cloners, rx, nextItem, fate,
                   acker, waker, mock, log>>

\* Dropping the read side: Receiver::close (the channel is closed and every
\* parked sender unparked), then the messages left are drained and discarded.
RxDrop ==
    /\ rx.exists /\ rx.alive
    /\ chans[rx.chan].alloc
    /\ rx' = [rx EXCEPT !.alive = FALSE]
    /\ chans' = [chans EXCEPT ![rx.chan] =
            [@ EXCEPT !.open = FALSE, !.queue = <<>>, !.parked_queue = <<>>]]
    /\ eps' = [e \in Endpoints |->
            IF eps[e].exists /\ eps[e].chan = rx.chan
            THEN [eps[e] EXCEPT !.is_parked = FALSE]
            ELSE eps[e]]
    /\ UNCHANGED <<toml, cfg, data_dir, built, openCalls, cloners, read, nextItem,
                   fate, acker, waker, mock, log>>

\* ---------------------------------------------------------------- Acker
\* The task of the test: its poll registers its waker with the shared
\* AtomicWaker and returns Pending; entering the poll clears is_woken.
MockPoll ==
    /\ acker.kind = "Disk"
    /\ waker' = "task"
    /\ mock' = [mock EXCEPT !.polled = TRUE, !.woken = FALSE]
    /\ UNCHANGED <<toml, cfg, data_dir, built, openCalls, cloners, eps, chans, rx,
                   read, nextItem, fate, acker, log>>
\* Variant: ack(0) advances and wakes like any other ack.
AckActsAlways(num) == TRUE

\* Variant: only an ack of more than one record acts.
AckActsAboveOne(num) == num > 1

\* Whether ack(num) acts at all: ack(0) leaves the task not woken.
AckActs(num) == num > 0

\* AtomicWaker::wake: the registered waker, if any, is taken and woken.
WakerAfterWake(w) == "none"

\* Acker::ack(num).
Ack(num) ==
    /\ acker.kind \in {"Null", "Disk"}
    /\ acker.counter + num <= MaxCounter
    /\ IF AckActs(num) /\ acker.kind = "Disk"
       THEN /\ acker' = [acker EXCEPT !.counter = @ + num]
            /\ waker' = WakerAfterWake(waker)
            /\ mock' = IF waker = "task"
                       THEN [mock EXCEPT !.woken = TRUE, !.wakes = @ + 1,
                                         !.last = num, !.acked = @ + num]
                       ELSE [mock EXCEPT !.last = num, !.acked = @ + num]
       ELSE /\ mock' = IF acker.kind = "Disk"
                       THEN [mock EXCEPT !.last = num, !.acked = @ + num]
                       ELSE mock
            /\ UNCHANGED <<acker, waker>>
    /\ UNCHANGED <<toml, cfg, data_dir, built, openCalls, cloners, eps, chans, rx,
                   read, nextItem, fate, log>>

\* ------------------------------------------------------- specification
Next ==
    \/ Build
    \/ \E c, d \in Cloners : CloneCloner(c, d)
    \/ \E c \in Cloners, e \in Endpoints : Get(c, e)
    \/ \E e \in Endpoints : PollReady(e)
    \/ \E e \in Endpoints : StartSend(e)
    \/ RxPollNext
    \/ RxDrop
    \/ MockPoll
    \/ \E num \in 0..MaxAck : Ack(num)

Spec == Init /\ [][Next]_vars

\* Reading and writing configurations: toml::from_str, BufferConfig::default
\* and toml::to_string; nothing is built.
InitConfig ==
    /\ toml \in {NoToml} \cup {[NoToml EXCEPT !.stage = "text", !.src = t] : t \in Texts}
    /\ cfg = [type |-> "memory", max_events |-> 0, when_full |-> WhenFullDefault]
    /\ data_dir = "None"
    /\ built = [done |-> FALSE, ok |-> FALSE, err |-> ""]
    /\ openCalls = 0
    /\ cloners = [c \in Cloners |-> NoCloner]
    /\ eps = [e \in Endpoints |-> NoEp]
    /\ chans = [c \in ChanIds |-> NoChan]
    /\ rx = [exists |-> FALSE, chan |-> 0, alive |-> FALSE]
    /\ read = <<>>
    /\ nextItem = 1
    /\ fate = [i \in Items |-> NoFate]
    /\ acker = [kind |-> "none", counter |-> 0]
    /\ waker = "none"
    /\ mock = [polled |-> FALSE, woken |-> FALSE, wakes |-> 0, last |-> -1,
               acked |-> 0]
    /\ log = {}

ConfigFrame ==
    UNCHANGED <<cfg, data_dir, built, openCalls, cloners, eps, chans, rx, read,
                nextItem, fate, acker, waker, mock, log>>

\* toml::from_str::<BufferConfig>(source)
TomlFromStr ==
    /\ toml.stage = "text"
    /\ LET r == Deserialize(toml.src)
       IN toml' = IF r.ok
                  THEN [toml EXCEPT !.stage = "value", !.value = r.value]
                  ELSE [toml EXCEPT !.stage = "error"]
    /\ ConfigFrame

\* BufferConfig::default()
Default ==
    /\ toml.stage = "none"
    /\ toml' = [toml EXCEPT !.stage = "value", !.value = BufferConfigDefault]
    /\ ConfigFrame

\* toml::to_string(&conf)
TomlToString ==
    /\ toml.stage = "value"
    /\ toml' = [toml EXCEPT !.stage = "out", !.out = Serialize(toml.value)]
    /\ ConfigFrame

NextConfig ==
    \/ TomlFromStr
    \/ Default
    \/ TomlToString

SpecConfig == InitConfig /\ [][NextConfig]_vars

\* The same program with the endpoints' poll_flush and poll_close in play,
\* followed for MaxLifeItems submissions.
NextLife ==
    \/ Build
    \/ \E c, d \in Cloners : CloneCloner(c, d)
    \/ \E c \in Cloners, e \in Endpoints : Get(c, e)
    \/ \E e \in Endpoints : PollReady(e)
    \/ \E e \in Endpoints : StartSend(e) /\ nextItem <= MaxLifeItems
    \/ \E e \in Endpoints : PollFlush(e)
    \/ \E e \in Endpoints : PollClose(e)
    \/ RxPollNext
    \/ RxDrop
    \/ MockPoll
    \/ \E num \in 0..MaxAck : Ack(num)

SpecLife == Init /\ [][NextLife]_vars

\* ------------------------------------------------------------ properties
Upto(n) == [i \in 1..n |-> i]
Range(seq) == {seq[i] : i \in 1..Len(seq)}
Submitted == 1..(nextItem - 1)
AcceptedItems == {i \in Submitted : fate[i].outcome = "accepted"}
DroppedItems == {i \in Submitted : fate[i].outcome = "dropped"}
ErrorItems == {i \in Submitted : fate[i].outcome = "error"}
\* What the read side has seen followed by what it will see next.
Delivered == read \o chans[rx.chan].queue
\* Endpoint e is the only producer so far and has not been closed.
OnlyProducer(e) == ~eps[e].closed /\ \A i \in Submitted : fate[i].owner = e
\* Nothing has been read and the read side is still there.
NoDrainYet == rx.exists /\ rx.alive /\ read = <<>>
Capacity == chans[rx.chan].buffer
\* The records accepted and not yet read.
Buffered == chans[rx.chan].queue
\* The endpoints obtained with get() so far.
Obtained == {e \in Endpoints : eps[e].exists}

\* C1: DropWhenFull.poll_ready never returns Pending: it returns Ready(Ok)
\* when the inner endpoint returned Ready(Ok) or Pending, and an error only
\* when the inner endpoint returned that error.
C1_NeverPending ==
    \A e \in Endpoints :
        (MemoryEp(e) /\ eps[e].wrapped) =>
            /\ eps[e].polled # "Pending"
            /\ (eps[e].polled = "none") <=> (eps[e].inner = "none")
            /\ eps[e].inner \in {"ReadyOk", "Pending"} => eps[e].polled = "ReadyOk"
            /\ eps[e].polled = "ReadyOk" => eps[e].inner \in {"ReadyOk", "Pending"}
            /\ eps[e].polled = "ErrUnit" <=> eps[e].inner = "ErrUnit"

C1_Witness ==
    \E e, f \in Endpoints :
        /\ MemoryEp(e) /\ eps[e].wrapped
        /\ eps[e].inner = "Pending" /\ eps[e].polled = "ReadyOk"
        /\ MemoryEp(f) /\ eps[f].wrapped /\ eps[f].polled = "ErrUnit"

\* C2: start_send on a DropWhenFull whose drop flag is set returns Ok and
\* leaves the channel and the inner sender as they were; with the flag clear
\* the item goes to the inner start_send and its result is returned.
C2_StartSend ==
    [][\A e \in Endpoints :
         (StartSend(e) /\ eps[e].wrapped) =>
            IF eps[e].drop
            THEN /\ chans' = chans
                 /\ eps'[e].is_parked = eps[e].is_parked
                 /\ eps'[e].maybe_parked = eps[e].maybe_parked
                 /\ fate'[nextItem].outcome = "dropped"
            ELSE /\ fate'[nextItem].outcome =
                        IF SenderStartSend(e) = "Ok" THEN "accepted" ELSE "error"
                 /\ SenderStartSend(e) = "Ok" =>
                        chans'[eps[e].chan].queue =
                            Append(chans[eps[e].chan].queue, nextItem)
                 /\ SenderStartSend(e) # "Ok" => chans' = chans]_vars

C2_Witness ==
    \E e \in Endpoints : \E i, j, k \in Submitted :
        /\ MemoryEp(e) /\ eps[e].wrapped
        /\ fate[i].owner = e /\ fate[i].outcome = "accepted"
        /\ fate[j].owner = e /\ fate[j].outcome = "dropped"
        /\ fate[k].owner = e /\ fate[k].outcome = "error"

\* A single producer on a DropNewest endpoint that has made more than n
\* submissions, nothing read so far.
DropNewestFill(e, n) ==
    /\ built.ok /\ cfg.type = "memory" /\ cfg.when_full = "DropNewest"
    /\ MemoryEp(e) /\ eps[e].wrapped
    /\ OnlyProducer(e)
    /\ nextItem - 1 > n

\* C3 as stated: with policy DropNewest and capacity N, a producer making
\* more than N probe-then-submit pairs before any drain has exactly N records
\* accepted (capacity 2, submissions 1,2,3,4: the consumer sees 1,2).
C3_AcceptsCapacity ==
    \A e \in Endpoints :
        (DropNewestFill(e, cfg.max_events) /\ NoDrainYet) =>
            /\ Cardinality(AcceptedItems) = cfg.max_events
            /\ chans[rx.chan].queue = Upto(cfg.max_events)

\* C3 amended: the producer's sender owns one slot besides the N shared ones,
\* so with more than N+1 submissions before any drain exactly the first N+1
\* are accepted and queued in order, the later ones are dropped, and the
\* consumer sees 1..N+1 and then gets Pending.
C3_AcceptsCapacityPlusOne ==
    \A e \in Endpoints :
        DropNewestFill(e, cfg.max_events + 1) =>
            /\ NoDrainYet =>
                /\ AcceptedItems = 1..(cfg.max_events + 1)
                /\ DroppedItems = Submitted \ AcceptedItems
                /\ chans[rx.chan].queue = Upto(cfg.max_events + 1)
            /\ (rx.alive /\ AcceptedItems = 1..(cfg.max_events + 1)) =>
                /\ Delivered = Upto(cfg.max_events + 1)
                /\ Len(read) = cfg.max_events + 1 => RxPollNextResult.tag = "Pending"

C3_Witness ==
    \E e \in Endpoints :
        /\ DropNewestFill(e, cfg.max_events + 1)
        /\ cfg.max_events = 2 /\ nextItem - 1 = 4
        /\ rx.alive /\ read = <<1, 2, 3>>
        /\ DroppedItems = {4}

\* C4: DropWhenFull around the only sending sender of a channel of buffer n,
\* items 1..k with k > n+1 and no drain: every poll_ready returned Ready(Ok),
\* every start_send returned Ok, and the receiver yields 1..n+1 in order.
C4_DropWhenFullTest ==
    \A e \in Endpoints :
        (MemoryEp(e) /\ eps[e].wrapped /\ OnlyProducer(e) /\ NoDrainYet) =>
            /\ eps[e].polled \in {"none", "ReadyOk"}
            /\ ErrorItems = {}
            /\ \A i \in Submitted :
                   fate[i].outcome =
                       IF i <= Capacity + 1 THEN "accepted" ELSE "dropped"
            /\ nextItem - 1 > Capacity + 1 =>
                   /\ chans[rx.chan].queue = Upto(Capacity + 1)
                   /\ eps[e].is_parked

C4_Witness ==
    \E e \in Endpoints :
        /\ MemoryEp(e) /\ eps[e].wrapped /\ OnlyProducer(e) /\ NoDrainYet
        /\ Capacity = 2 /\ nextItem - 1 = 4
        /\ chans[rx.chan].queue = <<1, 2, 3>>

\* C5: with policy Block the endpoint from get() is the plain inner endpoint;
\* a single producer that fills the channel before any drain gets Pending from
\* its probe and cannot submit further; nothing is ever dropped, and every
\* accepted record is read or still queued while the read side is there.
C5_BlockSuspends ==
    (built.ok /\ cfg.when_full = "Block") =>
        /\ \A e \in Endpoints : eps[e].exists => ~eps[e].wrapped
        /\ DroppedItems = {}
        /\ rx.alive => (ErrorItems = {} /\ Range(Delivered) = AcceptedItems)
        /\ \A e \in Endpoints :
            (MemoryEp(e) /\ OnlyProducer(e) /\ NoDrainYet
                /\ nextItem - 1 > cfg.max_events) =>
                /\ nextItem - 1 = cfg.max_events + 1
                /\ SinkMapErr(SenderPollReady(e)) = "Pending"
                /\ eps[e].polled \in {"none", "Pending"}

C5_Witness ==
    \E e \in Endpoints :
        /\ built.ok /\ cfg.when_full = "Block" /\ cfg.max_events = 2
        /\ MemoryEp(e) /\ OnlyProducer(e) /\ NoDrainYet
        /\ nextItem - 1 = 3
        /\ eps[e].polled = "Pending"

\* The steps that are ack(num) on the Disk acker.
DiskAck(num) == Ack(num) /\ acker.kind = "Disk"

\* C6 as stated: ack on a Disk acker always wakes the registered task,
\* also with value 0.
C6_AlwaysWakes ==
    [][\A num \in 0..MaxAck :
         (DiskAck(num) /\ waker = "task") =>
             /\ mock'.wakes = mock.wakes + 1
             /\ mock'.woken]_vars

\* C6 amended: ack(num) with num > 0 wakes the registered task exactly once
\* (the waker is taken, a later ack finds none to wake); ack(0) changes neither
\* the counter nor the waker and wakes nothing.
C6_WakesWhenPositive ==
    [][\A num \in 0..MaxAck :
         DiskAck(num) =>
             IF num > 0
             THEN /\ acker'.counter = acker.counter + num
                  /\ waker' = "none"
                  /\ mock'.wakes = mock.wakes + (IF waker = "task" THEN 1 ELSE 0)
             ELSE /\ acker'.counter = acker.counter
                  /\ waker' = waker
                  /\ mock'.wakes = mock.wakes
                  /\ mock'.woken = mock.woken]_vars

C6_Witness ==
    /\ acker.kind = "Disk" /\ mock.polled
    /\ mock.last = 0 /\ waker = "task"
    /\ mock.wakes = 1 /\ ~mock.woken

\* C7: with a task registered and not yet woken, ack(0) leaves it not woken
\* and ack(n) with n > 0 wakes it.
C7_AckWithNone ==
    [][\A num \in 0..MaxAck :
         (DiskAck(num) /\ waker = "task" /\ ~mock.woken) =>
             (mock'.woken <=> num > 0)]_vars

C7_Witness ==
    /\ acker.kind = "Disk" /\ mock.polled
    /\ mock.woken /\ mock.last = 1 /\ acker.counter = 1

\* C9: clones of the BufferInputCloner and the endpoints they hand out all
\* share the one channel made by build; every accepted record is read or
\* queued there exactly once, and each endpoint's records keep their order.
C9_OneChannel ==
    /\ \A c \in ChanIds : chans[c].alloc => (rx.exists /\ c = rx.chan)
    /\ \A c \in Cloners : cloners[c].exists => cloners[c].chan = rx.chan
    /\ \A e \in Endpoints : eps[e].exists => eps[e].chan = rx.chan
    /\ (rx.exists /\ rx.alive) =>
        /\ Range(Delivered) = AcceptedItems
        /\ Len(Delivered) = Cardinality(AcceptedItems)
        /\ \A a, b \in 1..Len(Delivered) :
               (a < b /\ fate[Delivered[a]].owner = fate[Delivered[b]].owner)
                   => Delivered[a] < Delivered[b]

C9_Witness ==
    \E e, f \in Endpoints : \E i, j, k \in Submitted :
        /\ MemoryEp(e) /\ MemoryEp(f) /\ eps[e].from # eps[f].from
        /\ i < j /\ j < k
        /\ fate[i].owner = e /\ fate[j].owner = f /\ fate[k].owner = e
        /\ rx.alive /\ read = <<i, j, k>>

\* C10: build on a Disk configuration without data_dir returns the error
\* "Must set data_dir to use on-disk buffering.", never calls disk::open and
\* builds nothing (no memory channel, no cloner, no acker).
C10_MissingDataDir ==
    (built.done /\ cfg.type = "disk" /\ data_dir = "None") =>
        /\ ~built.ok
        /\ built.err = MissingDataDir
        /\ openCalls = 0
        /\ \A c \in Cloners : ~cloners[c].exists
        /\ \A c \in ChanIds : ~chans[c].alloc
        /\ ~rx.exists
        /\ acker.kind = "none"

C10_Witness ==
    built.done /\ cfg.type = "disk" /\ data_dir = "None" /\ built.err = MissingDataDir

\* C11: DropWhenFull forwards every poll_flush and poll_close to the inner
\* endpoint and returns the inner result unchanged, whether the drop flag is
\* set or clear (a flush polls the inner sender, a close disconnects it);
\* neither operation changes the drop flag.
C11_LifecycleForwarded ==
    [][\A e \in Endpoints :
         (MemoryEp(e) /\ eps[e].wrapped) =>
            /\ PollFlush(e) =>
                   /\ eps'[e].life = [op |-> "flush",
                                      res |-> SinkMapErr(SenderPollFlush(e))]
                   /\ eps'[e].maybe_parked = SenderMaybeParkedAfterPoll(e)
                   /\ eps'[e].drop = eps[e].drop
            /\ PollClose(e) =>
                   /\ eps'[e].life = [op |-> "close",
                                      res |-> SinkMapErr(SenderPollClose(e))]
                   /\ eps'[e].closed
                   /\ eps'[e].drop = eps[e].drop]_vars

C11_Witness ==
    \E e, f \in Endpoints :
        /\ MemoryEp(e) /\ eps[e].wrapped /\ eps[e].drop
        /\ eps[e].life = [op |-> "flush", res |-> "Pending"]
        /\ MemoryEp(f) /\ eps[f].wrapped /\ eps[f].drop
        /\ eps[f].life = [op |-> "close", res |-> "ReadyOk"] /\ eps[f].closed

\* C12: closing a DropNewest endpoint loses no accepted record: once an
\* endpoint is closed the channel is still open and, while the read side is
\* there, every item forwarded to the inner endpoint is read or still queued,
\* the endpoint's items in order, and the next read yields the oldest queued
\* one; of the endpoint's items only those submitted while the drop flag was
\* set are missing.
C12_CloseLosesNothing ==
    \A e \in Endpoints :
        (MemoryEp(e) /\ eps[e].wrapped /\ eps[e].closed /\ rx.alive) =>
            /\ chans[rx.chan].open
            /\ Range(Delivered) = AcceptedItems
            /\ Len(Delivered) = Cardinality(AcceptedItems)
            /\ \A a, b \in 1..Len(Delivered) :
                   (a < b /\ fate[Delivered[a]].owner = e
                          /\ fate[Delivered[b]].owner = e)
                       => Delivered[a] < Delivered[b]
            /\ {i \in Submitted : fate[i].owner = e} \ Range(Delivered)
                   = {i \in DroppedItems : fate[i].owner = e}
            /\ Buffered # <<>> =>
                   RxPollNextResult = [tag |-> "Some", item |-> Head(Buffered)]

C12_Witness ==
    \E e \in Endpoints : \E i, j, k \in Submitted :
        /\ MemoryEp(e) /\ eps[e].wrapped /\ eps[e].closed /\ rx.alive
        /\ fate[i].owner = e /\ fate[j].owner = e /\ fate[k].owner = e
        /\ i < j /\ read = <<i>> /\ chans[rx.chan].queue = <<j>>
        /\ fate[k].outcome = "dropped"
\* C13: when the inner endpoint's poll_ready returns an error,
\* DropWhenFull.poll_ready returns that same error and leaves the drop flag at
\* the value it had before the call.
C13_ErrorPropagated ==
    [][\A e \in Endpoints :
         (PollReady(e) /\ eps[e].wrapped
            /\ SinkMapErr(SenderPollReady(e)) = "ErrUnit") =>
                /\ eps'[e].inner = "ErrUnit"
                /\ eps'[e].polled = SinkMapErr(SenderPollReady(e))
                /\ eps'[e].drop = eps[e].drop]_vars

C13_Witness ==
    \E e, f \in Endpoints :
        /\ MemoryEp(e) /\ eps[e].wrapped
        /\ eps[e].polled = "ErrUnit" /\ eps[e].drop
        /\ MemoryEp(f) /\ eps[f].wrapped
        /\ eps[f].polled = "ErrUnit" /\ ~eps[f].drop
\* The channel's error values.
ChannelErrors == {"ErrDisconnected", "ErrFull"}

\* C14: through an endpoint returned by get() for a memory buffer the producer
\* never receives the channel's error value: a failing call logs the error and
\* returns the unit error, and a record whose submission failed is neither
\* queued nor read.
C14_SendErrorAbsorbed ==
    /\ \A e \in Endpoints :
           MemoryEp(e) =>
              /\ eps[e].polled \notin ChannelErrors
              /\ eps[e].inner \notin ChannelErrors
              /\ eps[e].life.res \notin ChannelErrors
              /\ eps[e].polled = "ErrUnit" => log # {}
    /\ \A i \in Submitted :
           /\ fate[i].outcome \in {"accepted", "dropped", "error"}
           /\ fate[i].outcome = "error" =>
                  /\ log # {}
                  /\ i \notin Range(read)
                  /\ i \notin Range(Buffered)
    /\ log \subseteq ChannelErrors
    /\ log # {} =>
           \/ \E e \in Endpoints : MemoryEp(e) /\ eps[e].polled = "ErrUnit"
           \/ \E e \in Endpoints : MemoryEp(e) /\ eps[e].closed
           \/ ErrorItems # {}
           \/ ~rx.alive

C14_Witness ==
    \E e \in Endpoints : \E i, j \in Submitted :
        /\ MemoryEp(e) /\ i < j
        /\ fate[i].owner = e /\ fate[i].outcome = "accepted"
        /\ fate[j].owner = e /\ fate[j].outcome = "error"
        /\ eps[e].polled = "ErrUnit"
        /\ read = <<i>> /\ log = {"ErrDisconnected"}
\* The text that spells out every field of what the text t stands for.
FullText(t) ==
    IF t.type = {"disk"}
    THEN [type |-> {"disk"}, max_events |-> {}, max_size |-> t.max_size,
          when_full |-> IF t.when_full = {} THEN {"block"} ELSE t.when_full]
    ELSE [type |-> {"memory"}, max_size |-> {},
          max_events |-> IF t.max_events = {} THEN {500} ELSE t.max_events,
          when_full |-> IF t.when_full = {} THEN {"block"} ELSE t.when_full]

\* C15: a memory text that sets only the type reads as Memory{max_events: 500,
\* when_full: Block}; a left-out max_events reads as 500 and a left-out
\* when_full as Block, each whatever the other key holds; a disk text that
\* sets only max_size gets when_full = Block; and writing the value read gives
\* the text of the fully defaulted value, which reads back as the same value.
C15_DefaultsRoundTrip ==
    LET src == toml.src
        value == toml.value
    IN /\ (toml.stage \in {"value", "out"} /\ src.type = {"memory"}) =>
            /\ value.type = "Memory"
            /\ src.max_events = {} => value.max_events = 500
            /\ src.max_events # {} => value.max_events \in src.max_events
            /\ src.when_full = {} => value.when_full = "Block"
            /\ src.when_full = {"block"} => value.when_full = "Block"
            /\ src.when_full = {"drop_newest"} => value.when_full = "DropNewest"
       /\ (toml.stage \in {"value", "out"} /\ src.type = {"disk"}) =>
            /\ value.type = "Disk"
            /\ value.max_size \in src.max_size
            /\ src.when_full = {} => value.when_full = "Block"
            /\ src.when_full = {"drop_newest"} => value.when_full = "DropNewest"
       /\ (toml.stage \in {"value", "out"} /\ src.type = {}) =>
            value = [type |-> "Memory", max_events |-> 500, max_size |-> 0,
                     when_full |-> "Block"]
       /\ toml.stage = "out" =>
            /\ toml.out = FullText(src)
            /\ Deserialize(toml.out) = [ok |-> TRUE, value |-> value]
            /\ Serialize(Deserialize(toml.out).value) = toml.out
            /\ Deserialize(FullText(src)).value = value

C15_Witness ==
    /\ toml.stage = "out"
    /\ toml.src = [type |-> {"memory"}, max_events |-> {}, when_full |-> {},
                   max_size |-> {}]
    /\ toml.value = [type |-> "Memory", max_events |-> 500, max_size |-> 0,
                     when_full |-> "Block"]
    /\ toml.out = [type |-> {"memory"}, max_events |-> {500},
                   when_full |-> {"block"}, max_size |-> {}]
\* C16: shedding is not sticky: a probe whose inner endpoint is ready clears
\* the drop flag, also after items were dropped, and the submission that
\* follows is forwarded, queued and so delivered to the read side; after any
\* probe that returned no error the drop flag equals (the inner endpoint was
\* not ready at that probe).
C16_NotSticky ==
    [][\A e \in Endpoints :
         (MemoryEp(e) /\ eps[e].wrapped) =>
            /\ PollReady(e) =>
                   /\ SinkMapErr(SenderPollReady(e)) = "ReadyOk" => ~eps'[e].drop
                   /\ SinkMapErr(SenderPollReady(e)) = "Pending" => eps'[e].drop
            /\ eps'[e].polled = "ReadyOk" =>
                   (eps'[e].drop <=> eps'[e].inner = "Pending")
            /\ (StartSend(e) /\ eps[e].inner = "ReadyOk" /\ rx.alive) =>
                   /\ fate'[nextItem].outcome = "accepted"
                   /\ Delivered' = Append(Delivered, nextItem)]_vars

C16_Witness ==
    \E e \in Endpoints : \E i, j, k \in Submitted :
        /\ MemoryEp(e) /\ eps[e].wrapped
        /\ i < j /\ j < k
        /\ fate[i].owner = e /\ fate[i].outcome = "accepted"
        /\ fate[j].owner = e /\ fate[j].outcome = "dropped"
        /\ fate[k].owner = e /\ fate[k].outcome = "accepted"
        /\ rx.alive /\ read = <<i, k>>
\* C17: DropWhenFull keeps the inner endpoint's admission protocol: with a
\* probe before every submission, whenever a submission would reach the inner
\* start_send (a probe returned Ready(Ok), the drop flag is clear) the latest
\* inner poll_ready returned Ready(Ok) and nothing was sent through the
\* endpoint since, so the inner sender never answers Full (no Full error is
\* ever logged, a submission fails only with the receiver gone); after a
\* Pending answer of the inner endpoint the drop flag is set and the item is
\* not forwarded.
C17_AdmissionProtocol ==
    /\ \A e \in Endpoints :
           (MemoryEp(e) /\ eps[e].wrapped) =>
              /\ eps[e].polled = "ReadyOk" => eps[e].inner \in {"ReadyOk", "Pending"}
              /\ eps[e].polled = "none" => eps[e].inner = "none"
              /\ (eps[e].polled = "ReadyOk" /\ ~eps[e].drop) =>
                     /\ eps[e].inner = "ReadyOk"
                     /\ SenderStartSend(e) # "ErrFull"
              /\ eps[e].inner = "Pending" => eps[e].drop
    /\ "ErrFull" \notin log
    /\ \A i \in ErrorItems : ~rx.alive

C17_Witness ==
    \E e \in Endpoints : \E i, j \in Submitted :
        /\ MemoryEp(e) /\ eps[e].wrapped /\ i < j
        /\ fate[i].owner = e /\ fate[i].outcome = "accepted"
        /\ fate[j].owner = e /\ fate[j].outcome = "dropped"
        /\ eps[e].is_parked
        /\ eps[e].inner = "Pending" /\ eps[e].polled = "ReadyOk"
\* C18 as stated: a memory buffer built with max_events = N never holds more
\* than N records accepted and not yet read.
C18_BoundedByMaxEvents ==
    (built.ok /\ cfg.type = "memory") => Len(Buffered) <= cfg.max_events

\* C18 amended: every sender has one slot of its own besides the N shared
\* ones, so the records accepted and not yet read never exceed N plus the
\* number of endpoints obtained with get(), under either policy; an endpoint
\* that is not parked has found at most N records of others in its way.
C18_BoundedByMaxEventsPlusSenders ==
    (built.ok /\ cfg.type = "memory") =>
        /\ Len(Buffered) <= cfg.max_events + Cardinality(Obtained)
        /\ Len(Buffered) <= cfg.max_events
               + Cardinality({e \in Obtained : eps[e].is_parked})

C18_Witness ==
    /\ built.ok /\ cfg.type = "memory"
    /\ Cardinality(Obtained) = 2
    /\ Len(Buffered) = cfg.max_events + 2
    /\ cfg.max_events > 0
OneProducerOneConsumer(e) ==
    /\ MemoryEp(e) /\ eps[e].wrapped
    /\ \A i \in Submitted : fate[i].owner = e
    /\ rx.exists /\ rx.alive

\* C20: conservation through a DropNewest endpoint: after any sequence of
\* probe-then-submit, flush, drain and close by one producer and one consumer
\* every submitted item is in exactly one of three places: dropped by the
\* decorator, still buffered in the channel, or read; the items read followed
\* by the buffered ones are a subsequence of the submitted sequence, without a
\* duplicate and without an item that was never submitted.
C20_Conservation ==
    \A e \in Endpoints :
        OneProducerOneConsumer(e) =>
            /\ ErrorItems = {}
            /\ DroppedItems \cup Range(read) \cup Range(Buffered) = Submitted
            /\ DroppedItems \cap Range(read) = {}
            /\ DroppedItems \cap Range(Buffered) = {}
            /\ Range(read) \cap Range(Buffered) = {}
            /\ Len(Delivered) = Cardinality(Range(Delivered))
            /\ \A a, b \in 1..Len(Delivered) :
                   a < b => Delivered[a] < Delivered[b]

C20_Witness ==
    \E e \in Endpoints :
        /\ OneProducerOneConsumer(e)
        /\ ~eps[e].closed /\ eps[e].life.op = "flush"
        /\ read = <<1>> /\ Buffered = <<2>> /\ DroppedItems = {3}

====
